---- MODULE Spec2Model ----
(***************************************************************************)
(* A model of the YouTube thumbnail pipeline: the two FastAPI applications *)
(* api/main.py and api/process_video.py.  Both expose POST                 *)
(* /api/process-video, whose handler process_video downloads a video,      *)
(* extracts its audio, ranks the one-second windows of the audio by        *)
(* loudness, transcribes the audio, saves the frame of the loudest second  *)
(* and answers with the result.                                            *)
(*                                                                         *)
(* Three specifications share the variables:                               *)
(*   Spec       the request handler, stage by stage, over a scratch        *)
(*              filesystem shared by all runs of one deployed application; *)
(*   SpecPeaks  extract_audio_peaks applied to every bounded audio track;  *)
(*   SpecTime   format_time and the re-parsing done by extract_frame,      *)
(*              applied to every second of a day.                          *)
(*                                                                         *)
(* Strings whose content matters (timestamps, error messages) are          *)
(* sequences of characters or of message fragments, so that formatting and *)
(* parsing are computed and not assumed.                                   *)
(***************************************************************************)
EXTENDS Integers, Sequences, FiniteSets, TLC

(***************************************************************************)
(* Bounds of the model.                                                    *)
(***************************************************************************)
\* Number of requests served by one deployment.
NumRuns == 2

\* Longest audio track, in whole seconds, given to extract_audio_peaks in
\* SpecPeaks (longer than the 5 peaks kept, so that truncation happens).
MaxDur == 6

\* The seconds SpecTime renders: a whole day.
DayLimit == 24 * 3600

\* Loudness of a one-second window (segment.dBFS), in dBFS.
Loudness == {-30, -20, -5}

\* The number of peaks extract_audio_peaks keeps: the slice [:5].
TopN == 5

VARIABLES
    \* ---- Spec: the deployment and its scratch directory
    impl,           \* which application is deployed: "main" or "process_video"
    media,          \* videoId -> audio track of the video on the platform
    fs,             \* scratch directory: path -> [owner, kind, vid]
    nextUuid,       \* number of uuid.uuid4() values drawn so far
    \* ---- Spec: the runs (one per request)
    pc,             \* run -> position of the handler
    req,            \* run -> data.videoId
    files,          \* run -> [video_file, audio_file, frame_file]
    peaks,          \* run -> peaks (list of HH:MM:SS strings)
    transcription,  \* run -> transcription
    response,       \* run -> what the handler answered
    \* ---- Spec: history of each run (not program state)
    invoked,        \* run -> the stages started, in order
    succeeded,      \* run -> the stages that returned normally
    failStage,      \* run -> the stage whose exception ended the run
    frameArgs,      \* run -> the offsets handed to clip.save_frame, in order
    \* ---- SpecPeaks
    track,          \* the audio given to extract_audio_peaks
    peakList,       \* what it returned
    analysed,       \* whether it has been applied
    \* ---- SpecTime
    seconds,        \* the argument of format_time
    time_str,       \* the string it rendered
    frame_time,     \* h*3600 + m*60 + s recomputed by extract_frame
    tpc             \* "arg", "formatted" or "parsed"

vars == <<impl, media, fs, nextUuid, pc, req, files, peaks, transcription,
          response, invoked, succeeded, failStage, frameArgs,
          track, peakList, analysed, seconds, time_str, frame_time, tpc>>

pipeVars == <<impl, media, fs, nextUuid, pc, req, files, peaks, transcription,
              response, invoked, succeeded, failStage, frameArgs>>
peakVars == <<track, peakList, analysed>>
timeVars == <<seconds, time_str, frame_time, tpc>>

(***************************************************************************)
(* Text: decimal rendering and parsing.                                    *)
(***************************************************************************)
DigitChars == <<"0", "1", "2", "3", "4", "5", "6", "7", "8", "9">>

\* str(n) for n >= 0: the decimal digits, most significant first.
RECURSIVE Decimal(_)
Decimal(n) ==
    IF n < 10 THEN <<DigitChars[n + 1]>>
    ELSE Append(Decimal(n \div 10), DigitChars[(n % 10) + 1])

\* The format specification 02d: at least two digits, padded with zeros.
Format02d(n) ==
    LET d == Decimal(n) IN IF Len(d) < 2 THEN <<"0">> \o d ELSE d

\* The digit a character stands for.
DigitValue(c) == CHOOSE k \in 0..9 : DigitChars[k + 1] = c

\* int(field) for a field of decimal digits.
RECURSIVE ParseInt(_)
ParseInt(field) ==
    IF Len(field) = 0 THEN 0
    ELSE 10 * ParseInt(SubSeq(field, 1, Len(field) - 1))
         + DigitValue(field[Len(field)])

\* str.split(":"): the fields between the colons.
RECURSIVE SplitColon(_)
SplitColon(s) ==
    IF \A i \in 1..Len(s) : s[i] # ":" THEN <<s>>
    ELSE LET i == CHOOSE j \in 1..Len(s) :
                      s[j] = ":" /\ \A k \in 1..(j - 1) : s[k] # ":"
         IN <<SubSeq(s, 1, i - 1)>> \o SplitColon(SubSeq(s, i + 1, Len(s)))

(***************************************************************************)
(* format_time: seconds rendered as HH:MM:SS.                              *)
(***************************************************************************)
format_time_minutes_not_reduced(secs) ==
    LET h == secs \div 3600
        m == secs \div 60
        s == secs % 60
    IN Format02d(h) \o <<":">> \o Format02d(m) \o <<":">> \o Format02d(s)

format_time(secs) ==
    LET h == secs \div 3600
        m == (secs % 3600) \div 60
        s == secs % 60
    IN Format02d(h) \o <<":">> \o Format02d(m) \o <<":">> \o Format02d(s)

\* extract_frame: h, m, s = map(int, time_str.split(":")), then
\* frame_time = h * 3600 + m * 60 + s.
FrameTime(str) ==
    LET f == SplitColon(str)
    IN ParseInt(f[1]) * 3600 + ParseInt(f[2]) * 60 + ParseInt(f[3])

(***************************************************************************)
(* extract_audio_peaks.                                                    *)
(***************************************************************************)
\* The tuples (loudness, i) appended by the loop over range(duration_seconds).
loudness_scores(audio) == [i \in 1..Len(audio) |-> <<audio[i], i - 1>>]

\* Python's order on the tuples (loudness, i): a > b.
TupleGreater_ascending(a, b) ==
    a[1] < b[1] \/ (a[1] = b[1] /\ a[2] < b[2])

TupleGreater(a, b) ==
    a[1] > b[1] \/ (a[1] = b[1] /\ a[2] > b[2])

\* sorted(scores, reverse=True): by insertion, greatest first; an element
\* goes after those not smaller than it (reverse=True keeps the order of
\* equal elements).
RECURSIVE InsertDescending(_, _)
InsertDescending(x, sorted) ==
    IF sorted = <<>> THEN <<x>>
    ELSE IF TupleGreater(x, Head(sorted)) THEN <<x>> \o sorted
    ELSE <<Head(sorted)>> \o InsertDescending(x, Tail(sorted))

RECURSIVE SortedReverse(_)
SortedReverse(scores) ==
    IF scores = <<>> THEN <<>>
    ELSE InsertDescending(scores[Len(scores)],
                          SortedReverse(SubSeq(scores, 1, Len(scores) - 1)))

\* The slice [:n].
SliceTo(s, n) == SubSeq(s, 1, IF Len(s) < n THEN Len(s) ELSE n)

top_peaks_one_more(audio) == SliceTo(SortedReverse(loudness_scores(audio)), TopN + 1)

top_peaks(audio) == SliceTo(SortedReverse(loudness_scores(audio)), TopN)

extract_audio_peaks(audio) ==
    LET top == top_peaks(audio)
    IN [k \in 1..Len(top) |-> format_time(top[k][2])]

(***************************************************************************)
(* The request handler process_video.                                      *)
(*                                                                         *)
(* The handler is an "async def" without any await, so the event loop      *)
(* runs one request to its answer before it starts the next: runs follow   *)
(* each other and share the working directory.                             *)
(***************************************************************************)
Runs == 1..NumRuns

\* The applications of the repository.
Impls == {"main", "process_video"}

\* Video identifiers a request can carry; "x" resolves to no video.
VideoIds == {"a", "b", "x"}
Resolvable == {"a", "b"}

\* Audio tracks a video can have: no whole second of audio, the three
\* seconds -20, -5, -30 dBFS, two seconds of equal loudness.
Tracks == {<< >>, <<-20, -5, -30>>, <<-5, -5>>}

Stages == {"download", "audio", "peaks", "transcribe", "frame"}

NoFiles == [video_file |-> <<"", 0, "">>, audio_file |-> <<"", 0, "">>,
            frame_file |-> <<"", 0, "">>]
NoResponse == [none |-> TRUE]

\* A path is <<stem, uuid, extension>>; uuid 0 stands for "no uuid in the
\* name".  The k-th uuid.uuid4() of the process is the value k: the calls
\* return pairwise different values.
main_FileNames(n) ==
    [video_file |-> <<"temp_", n + 1, ".mp4">>,
     audio_file |-> <<"temp_", n + 2, ".mp3">>,
     frame_file |-> <<"temp_", n + 3, ".jpg">>]

pv_FileNames(n) ==
    [video_file |-> <<"", n + 1, ".mp4">>,
     audio_file |-> <<"temp", 0, ".mp3">>,
     frame_file |-> <<"frame", 0, ".jpg">>]

FileNames(n) == IF impl = "main" THEN main_FileNames(n) ELSE pv_FileNames(n)
UuidsDrawn == IF impl = "main" THEN 3 ELSE 1

\* Writing and removing files of the scratch directory.
WriteFile(dir, path, content) == (path :> content) @@ dir
RemoveFile(dir, path) == [q \in (DOMAIN dir) \ {path} |-> dir[q]]
Exists(dir, path) == path \in DOMAIN dir

\* The message of the exception a stage's library call raises.
Cause == [download   |-> "yt_dlp: unable to download video",
          audio      |-> "audio track could not be written",
          peaks      |-> "audio could not be decoded",
          transcribe |-> "speech-to-text request failed",
          frame      |-> "frame could not be decoded"]
FileNotFound == "No such file or directory"
IndexError == "list index out of range"

\* main.py: the utility functions catch every exception and raise
\* HTTPException(500, detail = prefix + str(e)); the audio extraction is
\* inline in the handler and has no such wrapper.
Prefix == [download   |-> "Error downloading video: ",
           peaks      |-> "Error extracting audio peaks: ",
           frame      |-> "Error extracting frame: ",
           transcribe |-> "Error transcribing audio: "]

main_StageError(stage, msg) ==
    IF stage \in DOMAIN Prefix THEN <<Prefix[stage], msg>> ELSE <<msg>>

\* process_video.py: the utility functions let the exception through.
pv_StageError(stage, msg) == <<msg>>

StageError(stage, msg) ==
    IF impl = "main" THEN main_StageError(stage, msg)
    ELSE pv_StageError(stage, msg)

\* The handler's "except Exception as e": main.py raises
\* HTTPException(status_code=500, detail=str(e)), process_video.py returns
\* {"error": str(e)}.
main_ErrorResponse(e) == [status_code |-> 500, detail |-> e]
pv_ErrorResponse(e) == [error |-> e]
ErrorResponse(e) ==
    IF impl = "main" THEN main_ErrorResponse(e) ELSE pv_ErrorResponse(e)

WatchUrl(vid) == <<"https://www.youtube.com/watch?v=", vid>>

\* The text the speech-to-text service returns for the audio of a video.
Speech(vid) == <<"speech of ", vid>>

main_Response(r) ==
    [videoId       |-> req[r],
     title         |-> WatchUrl(req[r]),
     transcription |-> transcription[r],
     wave_peaks    |-> peaks[r],
     frame_url     |-> <<"/frames/", files[r].frame_file>>,
     timestamp     |-> "datetime.utcnow().isoformat()",
     status        |-> "success"]

pv_Response(r) ==
    [title         |-> WatchUrl(req[r]),
     transcription |-> transcription[r],
     wave_peaks    |-> peaks[r],
     frame_url     |-> <<"https://your-cdn.com/temp/", files[r].frame_file>>]

Response(r) == IF impl = "main" THEN main_Response(r) ELSE pv_Response(r)

\* peaks[0]
FirstPeak_last(p) == p[Len(p)]

FirstPeak(p) == p[1]

Terminal == {"Completed", "Failed"}

\* A request is taken up when the event loop is free: every earlier request
\* has been answered.
CanStart_retry(r) ==
    /\ pc[r] \in {"Idle", "Failed"}
    /\ \A q \in Runs : q < r => pc[q] \in Terminal

CanStart(r) ==
    /\ pc[r] = "Idle"
    /\ \A q \in Runs : q < r => pc[q] \in Terminal

\* An exception of stage `stage` with message list e reaches the handler's
\* except clause: the handler answers with the error and ends.
Except(r, stage, e) ==
    /\ pc' = [pc EXCEPT ![r] = "Failed"]
    /\ response' = [response EXCEPT ![r] = ErrorResponse(e)]
    /\ failStage' = [failStage EXCEPT ![r] = stage]

Returns(r, stage, next) ==
    /\ pc' = [pc EXCEPT ![r] = next]
    /\ succeeded' = [succeeded EXCEPT ![r] = @ \cup {stage}]
    /\ UNCHANGED <<response, failStage>>

Invoke(r, stage) == invoked' = [invoked EXCEPT ![r] = Append(@, stage)]

\* The request arrives; the handler chooses its file names.
Receive(r, vid) ==
    /\ CanStart(r)
    /\ req' = [req EXCEPT ![r] = vid]
    /\ files' = [files EXCEPT ![r] = FileNames(nextUuid)]
    /\ nextUuid' = nextUuid + UuidsDrawn
    /\ pc' = [pc EXCEPT ![r] = "Pending"]
    /\ UNCHANGED <<impl, media, fs, peaks, transcription, response, invoked,
                   succeeded, failStage, frameArgs>>

\* download_video(videoId, video_file)
Download(r) ==
    /\ pc[r] = "Pending"
    /\ Invoke(r, "download")
    /\ \E ok \in BOOLEAN :
         IF ok /\ req[r] \in Resolvable
         THEN /\ fs' = WriteFile(fs, files[r].video_file,
                                 [owner |-> r, kind |-> "video", vid |-> req[r]])
              /\ Returns(r, "download", "Downloaded")
         ELSE /\ Except(r, "download", StageError("download", Cause.download))
              /\ UNCHANGED <<fs, succeeded>>
    /\ UNCHANGED <<impl, media, nextUuid, req, files, peaks, transcription,
                   frameArgs>>

\* main.py: VideoFileClip(video_file).audio.write_audiofile(audio_file);
\* process_video.py: ffmpeg -i video_file ... audio_file -y
ExtractAudio(r) ==
    /\ pc[r] = "Downloaded"
    /\ Invoke(r, "audio")
    /\ \E ok \in BOOLEAN :
         IF ~Exists(fs, files[r].video_file)
         THEN /\ Except(r, "audio", StageError("audio", FileNotFound))
              /\ UNCHANGED <<fs, succeeded>>
         ELSE IF ok
         THEN /\ fs' = WriteFile(fs, files[r].audio_file,
                                 [owner |-> r, kind |-> "audio",
                                  vid |-> fs[files[r].video_file].vid])
              /\ Returns(r, "audio", "AudioExtracted")
         ELSE /\ Except(r, "audio", StageError("audio", Cause.audio))
              /\ UNCHANGED <<fs, succeeded>>
    /\ UNCHANGED <<impl, media, nextUuid, req, files, peaks, transcription,
                   frameArgs>>

\* peaks = extract_audio_peaks(audio_file)
Analyze(r) ==
    /\ pc[r] = "AudioExtracted"
    /\ Invoke(r, "peaks")
    /\ \E ok \in BOOLEAN :
         IF ~Exists(fs, files[r].audio_file)
         THEN /\ Except(r, "peaks", StageError("peaks", FileNotFound))
              /\ UNCHANGED <<peaks, succeeded>>
         ELSE IF ok
         THEN /\ peaks' = [peaks EXCEPT ![r] =
                     extract_audio_peaks(media[fs[files[r].audio_file].vid])]
              /\ Returns(r, "peaks", "Analyzed")
         ELSE /\ Except(r, "peaks", StageError("peaks", Cause.peaks))
              /\ UNCHANGED <<peaks, succeeded>>
    /\ UNCHANGED <<impl, media, fs, nextUuid, req, files, transcription,
                   frameArgs>>

\* transcription = transcribe_audio(audio_file)
Transcribe(r) ==
    /\ pc[r] = "Analyzed"
    /\ Invoke(r, "transcribe")
    /\ \E ok \in BOOLEAN :
         IF ~Exists(fs, files[r].audio_file)
         THEN /\ Except(r, "transcribe", StageError("transcribe", FileNotFound))
              /\ UNCHANGED <<transcription, succeeded>>
         ELSE IF ok
         THEN /\ transcription' = [transcription EXCEPT ![r] =
                     Speech(fs[files[r].audio_file].vid)]
              /\ Returns(r, "transcribe", "Transcribed")
         ELSE /\ Except(r, "transcribe", StageError("transcribe", Cause.transcribe))
              /\ UNCHANGED <<transcription, succeeded>>
    /\ UNCHANGED <<impl, media, fs, nextUuid, req, files, peaks, frameArgs>>

\* frame_time = peaks[0]; extract_frame(video_file, frame_time, frame_file)
ExtractFrame(r) ==
    /\ pc[r] = "Transcribed"
    /\ IF peaks[r] = << >>
       THEN \* peaks[0] raises IndexError; extract_frame is not called
            /\ Except(r, "lookup", <<IndexError>>)
            /\ UNCHANGED <<fs, succeeded, invoked, frameArgs>>
       ELSE /\ Invoke(r, "frame")
            /\ \E ok \in BOOLEAN :
                 IF ~Exists(fs, files[r].video_file)
                 THEN /\ Except(r, "frame", StageError("frame", FileNotFound))
                      /\ UNCHANGED <<fs, succeeded, frameArgs>>
                 ELSE /\ frameArgs' = [frameArgs EXCEPT ![r] =
                             Append(@, FrameTime(FirstPeak(peaks[r])))]
                      /\ IF ok
                         THEN /\ fs' = WriteFile(fs, files[r].frame_file,
                                         [owner |-> r, kind |-> "frame",
                                          vid |-> fs[files[r].video_file].vid])
                              /\ Returns(r, "frame", "FrameExtracted")
                         ELSE /\ Except(r, "frame", StageError("frame", Cause.frame))
                              /\ UNCHANGED <<fs, succeeded>>
    /\ UNCHANGED <<impl, media, nextUuid, req, files, peaks, transcription>>

\* The video and audio files are removed (main.py: if they exist).
RemoveTemporaries(dir, r) ==
    RemoveFile(RemoveFile(dir, files[r].video_file), files[r].audio_file)

\* process_video.py: os.remove raises when the file is missing.
pv_CleanupRaises(dir, r) ==
    \/ ~Exists(dir, files[r].video_file)
    \/ ~Exists(dir, files[r].audio_file)

\* The temporary files are removed and the answer is built and returned.
Respond(r) ==
    /\ pc[r] = "FrameExtracted"
    /\ IF impl = "process_video" /\ pv_CleanupRaises(fs, r)
       THEN /\ Except(r, "cleanup", <<FileNotFound>>)
            /\ fs' = IF Exists(fs, files[r].video_file)
                     THEN RemoveFile(fs, files[r].video_file) ELSE fs
       ELSE /\ fs' = RemoveTemporaries(fs, r)
            /\ pc' = [pc EXCEPT ![r] = "Completed"]
            /\ response' = [response EXCEPT ![r] = Response(r)]
            /\ UNCHANGED failStage
    /\ UNCHANGED <<impl, media, nextUuid, req, files, peaks, transcription,
                   invoked, succeeded, frameArgs>>

\* No request has arrived and the scratch directory is empty.
PipeStart ==
    /\ fs = << >>
    /\ nextUuid = 0
    /\ pc = [r \in Runs |-> "Idle"]
    /\ req = [r \in Runs |-> "a"]
    /\ files = [r \in Runs |-> NoFiles]
    /\ peaks = [r \in Runs |-> << >>]
    /\ transcription = [r \in Runs |-> << >>]
    /\ response = [r \in Runs |-> NoResponse]
    /\ invoked = [r \in Runs |-> << >>]
    /\ succeeded = [r \in Runs |-> {}]
    /\ failStage = [r \in Runs |-> "none"]
    /\ frameArgs = [r \in Runs |-> << >>]

PeaksStart == peakList = << >> /\ analysed = FALSE
TimeStart == time_str = << >> /\ frame_time = 0 /\ tpc = "arg"

Init ==
    /\ impl \in Impls
    /\ media \in [Resolvable -> Tracks]
    /\ PipeStart
    /\ track = << >> /\ PeaksStart
    /\ seconds = 0 /\ TimeStart

Next ==
    \/ \E r \in Runs, vid \in VideoIds :
         Receive(r, vid) /\ UNCHANGED <<peakVars, timeVars>>
    \/ \E r \in Runs : Download(r) /\ UNCHANGED <<peakVars, timeVars>>
    \/ \E r \in Runs : ExtractAudio(r) /\ UNCHANGED <<peakVars, timeVars>>
    \/ \E r \in Runs : Analyze(r) /\ UNCHANGED <<peakVars, timeVars>>
    \/ \E r \in Runs : Transcribe(r) /\ UNCHANGED <<peakVars, timeVars>>
    \/ \E r \in Runs : ExtractFrame(r) /\ UNCHANGED <<peakVars, timeVars>>
    \/ \E r \in Runs : Respond(r) /\ UNCHANGED <<peakVars, timeVars>>

Spec == Init /\ [][Next]_vars

(***************************************************************************)
(* SpecPeaks: extract_audio_peaks on every track of at most MaxDur whole   *)
(* seconds.  A track is the sequence of the loudness of its one-second     *)
(* windows; its length is int(audio.duration_seconds), the trailing        *)
(* fraction of a second being outside range(duration_seconds).             *)
(***************************************************************************)
AllTracks == UNION {[1..n -> Loudness] : n \in 0..MaxDur}

InitPeaks ==
    /\ impl = "main"
    /\ media = [v \in Resolvable |-> << >>]
    /\ PipeStart
    /\ track \in AllTracks /\ PeaksStart
    /\ seconds = 0 /\ TimeStart

AnalyseTrack ==
    /\ ~analysed
    /\ peakList' = extract_audio_peaks(track)
    /\ analysed' = TRUE
    /\ UNCHANGED <<track, pipeVars, timeVars>>

NextPeaks == AnalyseTrack

SpecPeaks == InitPeaks /\ [][NextPeaks]_vars

(***************************************************************************)
(* SpecTime: format_time on every second of a day, and the re-parsing of   *)
(* its result by extract_frame.                                            *)
(***************************************************************************)
InitTime ==
    /\ impl = "main"
    /\ media = [v \in Resolvable |-> << >>]
    /\ PipeStart
    /\ track = << >> /\ PeaksStart
    /\ seconds \in 0..(DayLimit - 1) /\ TimeStart

FormatTime ==
    /\ tpc = "arg"
    /\ time_str' = format_time(seconds)
    /\ tpc' = "formatted"
    /\ UNCHANGED <<seconds, frame_time, pipeVars, peakVars>>

ParseTime ==
    /\ tpc = "formatted"
    /\ frame_time' = FrameTime(time_str)
    /\ tpc' = "parsed"
    /\ UNCHANGED <<seconds, time_str, pipeVars, peakVars>>

NextTime == FormatTime \/ ParseTime

SpecTime == InitTime /\ [][NextTime]_vars

(***************************************************************************)
(* Vocabulary of the properties.                                           *)
(***************************************************************************)
\* The files of the scratch directory written by run r.
OwnedBy(r) == {p \in DOMAIN fs : fs[p].owner = r}

\* The paths run r uses.
PathsOf(r) == {files[r].video_file, files[r].audio_file, files[r].frame_file}

\* The number of times stage st was started in the history h.
Calls(h, st) == Cardinality({k \in 1..Len(h) : h[k] = st})

\* The fields of a VideoResult, under the names main.py gives them.
ResultFields == {"videoId", "title", "transcription", "wave_peaks",
                 "frame_url", "timestamp", "status"}

IsCompleteResult(resp) ==
    ResultFields \subseteq DOMAIN resp /\ resp.status = "success"

IsFailureOnly(resp) ==
    /\ (DOMAIN resp) \cap ResultFields = {}
    /\ ("detail" \in DOMAIN resp \/ "error" \in DOMAIN resp)

\* The message of a failure answer.
MessageOf(resp) == IF "detail" \in DOMAIN resp THEN resp.detail ELSE resp.error

\* The stage a failing position belongs to: the peaks[0] lookup is the
\* first step of frame extraction.
StageOf(pos) == IF pos = "lookup" THEN "frame" ELSE pos

\* The decimal digits.
Range10 == {DigitChars[k] : k \in 1..10}

\* The window index a rendered peak stands for.
WindowOf(str) == FrameTime(str)

\* (loudness, window) pairs in Python's tuple order: <<l1, w1>> > <<l2, w2>>.
PairAbove(l1, w1, l2, w2) == l1 > l2 \/ (l1 = l2 /\ w1 > w2)

(***************************************************************************)
(* C1.  When a run ends in failure, every temporary file it had created    *)
(* (video, audio, frame) has been deleted: no file of a failed run remains *)
(* in the scratch directory.                                               *)
(***************************************************************************)
C1_FailedRunLeavesNothing ==
    \A r \in Runs : pc[r] = "Failed" => OwnedBy(r) = {}

(***************************************************************************)
(* C2.  Any two runs use pairwise different video, audio and frame paths,  *)
(* so that no run overwrites or deletes a file of another run.             *)
(***************************************************************************)
C2_PathsDisjoint ==
    \A r, q \in Runs :
        (r # q /\ pc[r] # "Idle" /\ pc[q] # "Idle")
            => PathsOf(r) \cap PathsOf(q) = {}

(***************************************************************************)
(* C3.  Once a stage of a run fails the run is Failed and stays Failed:    *)
(* no later stage is started, no stage is started twice, the answer does   *)
(* not change and the run writes no further file.  When the download       *)
(* fails, no other stage has been invoked, the run has created no file and *)
(* the answer is no VideoResult.                                           *)
(***************************************************************************)
C3_FailedState(r) ==
    /\ \A st \in Stages : Calls(invoked[r], st) <= 1
    /\ pc[r] = "Failed" =>
          /\ IsFailureOnly(response[r])
          /\ failStage[r] \in Stages =>
                /\ invoked[r][Len(invoked[r])] = failStage[r]
                /\ succeeded[r] = {invoked[r][k] : k \in 1..Len(invoked[r])}
                                     \ {failStage[r]}
    /\ (pc[r] = "Failed" /\ failStage[r] = "download") =>
          /\ invoked[r] = <<"download">>
          /\ succeeded[r] = {}
          /\ OwnedBy(r) = {}
          /\ ~IsCompleteResult(response[r])
          /\ "title" \notin DOMAIN response[r]

C3_FailedStays(r) ==
    pc[r] = "Failed" =>
        /\ pc'[r] = "Failed"
        /\ invoked'[r] = invoked[r]
        /\ succeeded'[r] = succeeded[r]
        /\ response'[r] = response[r]
        /\ failStage'[r] = failStage[r]
        /\ {p \in DOMAIN fs' : fs'[p].owner = r} \subseteq OwnedBy(r)

C3_FailureIsAbsorbing ==
    /\ [](\A r \in Runs : C3_FailedState(r))
    /\ [][\A r \in Runs : C3_FailedStays(r)]_vars

\* A request for an unresolvable videoId failed at the download, and the
\* service went on to complete another request.
C3_Witness ==
    \E r, q \in Runs :
        /\ pc[r] = "Failed" /\ failStage[r] = "download" /\ req[r] = "x"
        /\ pc[q] = "Completed"

(***************************************************************************)
(* C4.  A run answers with exactly one of two things: a complete           *)
(* VideoResult (videoId, sourceUrl, transcript, peak timestamps, frame     *)
(* reference, producedAt, status success), after all five stages           *)
(* succeeded, or a failure descriptor without any result field.            *)
(***************************************************************************)
C4_CompleteOrFailure ==
    \A r \in Runs :
        /\ pc[r] \notin Terminal => response[r] = NoResponse
        /\ pc[r] \in Terminal =>
              \/ IsCompleteResult(response[r]) /\ Stages \subseteq succeeded[r]
              \/ IsFailureOnly(response[r])

(***************************************************************************)
(* C5.  The failure descriptor of a failed run names the stage that failed *)
(* (download, audio extraction, loudness analysis, transcription or frame  *)
(* extraction) together with a cause.                                      *)
(***************************************************************************)
C5_FailureNamesStage ==
    \A r \in Runs :
        pc[r] = "Failed" =>
            LET msg == MessageOf(response[r])
            IN /\ Len(msg) >= 2
               /\ StageOf(failStage[r]) \in DOMAIN Prefix
               /\ msg[1] = Prefix[StageOf(failStage[r])]
               /\ msg[Len(msg)] # ""

(***************************************************************************)
(* C6.  For audio without a whole second, extract_audio_peaks returns an   *)
(* empty list and that is no error: the run does not fail because the list *)
(* is empty, and extract_frame is not invoked or is invoked with offset 0. *)
(***************************************************************************)
C6_EmptyPeaksIsNoError ==
    \A r \in Runs :
        ("peaks" \in succeeded[r] /\ media[req[r]] = << >>) =>
            /\ peaks[r] = << >>
            /\ failStage[r] # "lookup"
            /\ (Calls(invoked[r], "frame") = 0 \/ frameArgs[r] = <<0>>)

(***************************************************************************)
(* C7.  The list returned by extract_audio_peaks for an audio of D seconds *)
(* names exactly min(5, floor(D)) windows, pairwise different, each in     *)
(* [0, floor(D)); it is empty when D < 1.                                  *)
(***************************************************************************)
C7_PeakListShape ==
    analysed =>
        LET n == Len(track)
        IN /\ Len(peakList) = (IF n < 5 THEN n ELSE 5)
           /\ \A k \in 1..Len(peakList) : WindowOf(peakList[k]) \in 0..(n - 1)
           /\ \A j, k \in 1..Len(peakList) :
                  j # k => WindowOf(peakList[j]) # WindowOf(peakList[k])
           /\ n = 0 => peakList = << >>

\* An audio longer than five seconds was analysed, and five peaks returned.
C7_Witness == analysed /\ Len(track) >= 6 /\ Len(peakList) = 5

(***************************************************************************)
(* C8.  The list returned by extract_audio_peaks is the first 5 of all     *)
(* windows ordered by (loudness, windowIndex) descending: loudness does    *)
(* not increase along the list, an omitted window is no louder than a      *)
(* listed one, and of windows equally loud the later one comes first.      *)
(* Loudness -20, -5, -30 at seconds 0, 1, 2 gives 00:00:01, 00:00:00,      *)
(* 00:00:02.                                                               *)
(***************************************************************************)
C8_PeakListOrder ==
    analysed =>
        LET n == Len(peakList)
            w(k) == WindowOf(peakList[k])
            l(k) == track[w(k) + 1]
            listed == {w(k) : k \in 1..n}
        IN /\ \A k \in 1..(n - 1) : l(k) >= l(k + 1)
           /\ \A k \in 1..(n - 1) : PairAbove(l(k), w(k), l(k + 1), w(k + 1))
           /\ \A k \in 1..(n - 1) : l(k) = l(k + 1) => w(k) > w(k + 1)
           /\ \A i \in (0..(Len(track) - 1)) \ listed :
                  \A k \in 1..n :
                      /\ track[i + 1] <= l(k)
                      /\ PairAbove(l(k), w(k), track[i + 1], i)
           /\ track = <<-20, -5, -30>> =>
                  peakList = << <<"0", "0", ":", "0", "0", ":", "0", "1">>,
                                <<"0", "0", ":", "0", "0", ":", "0", "0">>,
                                <<"0", "0", ":", "0", "0", ":", "0", "2">> >>

\* Six seconds with ties: windows 3 and 1 (-5 dBFS) are listed later one
\* first, then windows 5, 4 and 2 (-20 dBFS); window 0, as loud as these, is
\* the one omitted.
C8_Witness ==
    /\ analysed
    /\ track = <<-20, -5, -20, -5, -20, -20>>
    /\ [k \in 1..Len(peakList) |-> WindowOf(peakList[k])] = <<3, 1, 5, 4, 2>>

(***************************************************************************)
(* C9.  As stated: in every run whose PeakList is non-empty, extract_frame *)
(* is invoked exactly once, after loudness analysis and transcription have *)
(* succeeded, with the offset of the loudest window.                       *)
(***************************************************************************)
C9_FrameOffsetOk(r) ==
    LET own == media[req[r]]
    IN \A k \in 1..Len(frameArgs[r]) :
           /\ frameArgs[r][k] = top_peaks(own)[1][2]
           /\ frameArgs[r][k] = WindowOf(peaks[r][1])
           /\ \A i \in 1..Len(own) : own[i] <= own[frameArgs[r][k] + 1]

C9_FrameOnceForEveryPeakList ==
    \A r \in Runs :
        (pc[r] \in Terminal /\ peaks[r] # << >>) =>
            /\ Calls(invoked[r], "frame") = 1
            /\ {"peaks", "transcribe"} \subseteq succeeded[r]
            /\ Len(frameArgs[r]) = 1
            /\ C9_FrameOffsetOk(r)

(***************************************************************************)
(* C9, as amended.  In every run whose PeakList is non-empty and whose     *)
(* transcription succeeded, extract_frame is invoked exactly once, after   *)
(* loudness analysis and transcription have succeeded, and the offset it   *)
(* passes to the decoder, recomputed from the HH:MM:SS string, is the      *)
(* windowIndex of PeakList[0], the loudest window.  A run whose            *)
(* transcription fails never invokes extract_frame.                        *)
(***************************************************************************)
C9_FrameOnceAtLoudest ==
    \A r \in Runs :
        LET n == Calls(invoked[r], "frame")
        IN /\ n <= 1
           /\ Len(frameArgs[r]) = n
           /\ n = 1 => /\ {"peaks", "transcribe"} \subseteq succeeded[r]
                       /\ peaks[r] # << >>
                       /\ invoked[r] = <<"download", "audio", "peaks",
                                         "transcribe", "frame">>
           /\ (pc[r] \in Terminal /\ peaks[r] # << >>
                 /\ "transcribe" \in succeeded[r]) => n = 1
           /\ (pc[r] \in Terminal /\ "transcribe" \notin succeeded[r]) => n = 0
           /\ C9_FrameOffsetOk(r)

\* A run on the video with loudness -20, -5, -30 completed, having asked for
\* the frame at second 1.
C9_Witness ==
    \E r \in Runs :
        /\ pc[r] = "Completed"
        /\ media[req[r]] = <<-20, -5, -30>>
        /\ frameArgs[r] = <<1>>

(***************************************************************************)
(* C10.  For every w with 0 <= w < 24*3600, format_time(w) is HH:MM:SS     *)
(* with minutes and seconds in [0,59] and two characters wide, re-parsing  *)
(* it as h*3600 + m*60 + s gives w back, and different w give different    *)
(* strings.  (The strings of w and of the seconds that differ from it in   *)
(* one field or by one are compared here; that no two seconds of the day   *)
(* share a string follows from the round trip holding for each.)           *)
(***************************************************************************)
IsDigits(field) == \A i \in 1..Len(field) : field[i] \in Range10

C10_Neighbours(w) ==
    {w - 3600, w - 60, w - 1, w + 1, w + 60, w + 3600, 0, 24 * 3600 - 1}
        \cap (0..(24 * 3600 - 1))

C10_TimeRoundTrip ==
    (seconds < 24 * 3600 /\ tpc # "arg") =>
        LET f == SplitColon(time_str)
        IN /\ Len(f) = 3
           /\ \A i \in 1..3 : IsDigits(f[i]) /\ Len(f[i]) >= 1
           /\ Len(f[1]) = 2 /\ Len(f[2]) = 2 /\ Len(f[3]) = 2
           /\ ParseInt(f[2]) \in 0..59
           /\ ParseInt(f[3]) \in 0..59
           /\ tpc = "parsed" => frame_time = seconds
           /\ \A v \in C10_Neighbours(seconds) :
                  v # seconds => format_time(v) # time_str

\* The last second of the day was rendered as 23:59:59 and parsed back.
C10_Witness ==
    /\ tpc = "parsed"
    /\ seconds = 24 * 3600 - 1
    /\ time_str = <<"2", "3", ":", "5", "9", ":", "5", "9">>
    /\ frame_time = seconds

====
